---- MODULE Spec2Model ----
(***************************************************************************)
(* A model of cross_validation_simulations_auc.py: the synthetic data      *)
(* generator mk_data, the trial runner sample_and_cross_val_clf and the    *)
(* module-level driver loop that sweeps the grid and writes the CSV.       *)
(*                                                                         *)
(* Floating point values are modelled as fixed-point numbers: a float is   *)
(* a record [k, v] whose kind k is "num" (the value v / Unit, of magnitude *)
(* at most MaxFloat), "nan", "inf", "ninf", or "none" (Python's None, for  *)
(* noise_corr).  Every operation rounds its exact result to a multiple of  *)
(* 1 / Unit.  numpy's float arithmetic never raises: a division by zero    *)
(* yields nan or an infinity; Python's own float division raises           *)
(* ZeroDivisionError.                                                      *)
(***************************************************************************)
EXTENDS Integers, Sequences, FiniteSets, TLC

VARIABLES
    calls,      \* SpecData: the frame of each running mk_data call
    np_random,  \* SpecData: numpy's module-level (global) generator state
    frame,      \* SpecTrial: the frame of the last sample_and_cross_val_clf call
    sem_in,     \* SpecSem: a collection of per-fold scores (cv_scores)
    sem_out,    \* SpecSem: the score_error / score_sem computed from sem_in
    oracle,     \* SpecDriver: what the library calls of every trial return
    d_pc,       \* SpecDriver: position of the module-level script
    size_idx,   \* SpecDriver: index of the current train_size in the sweep
    dispatched, \* SpecDriver: number of tasks handed to the worker pool
    running,    \* SpecDriver: seeds of the tasks the workers are executing
    out,        \* SpecDriver: results of the completed tasks, by task index
    line_idx,   \* SpecDriver: position of `for line in scores`
    results,    \* SpecDriver: the results DataFrame, as its sequence of rows
    csv         \* SpecDriver: the tables written by to_csv, in order

vars == <<calls, np_random, frame, sem_in, sem_out, oracle, d_pc, size_idx,
          dispatched, running, out, line_idx, results, csv>>


-----------------------------------------------------------------------------
(* Bounds of the model.                                                    *)

\* fixed-point resolution: the float x is the integer x * UnitRoot^2
UnitRoot == 1000
\* largest magnitude of a finite float; a result beyond it is an infinity
MaxFloat == 2000
\* largest n_samples of a modelled mk_data call
MaxSamples == 2
\* largest dim of a modelled mk_data call
MaxDim == 2
\* draws other code takes from numpy's module-level generator in one run
MaxGlobalDraws == 2

-----------------------------------------------------------------------------
(* Floats.                                                                 *)

Unit == UnitRoot * UnitRoot

Num(v) == [k |-> "num", v |-> v]
NaN == [k |-> "nan", v |-> 0]
PosInf == [k |-> "inf", v |-> 0]
NegInf == [k |-> "ninf", v |-> 0]
None == [k |-> "none", v |-> 0]

IsNum(a) == a.k = "num"
IsNaN(a) == a.k = "nan"

\* the float of an integer
FromInt(n) == Num(n * Unit)

Abs(n) == IF n < 0 THEN -n ELSE n

Sign(a) == IF a.k = "inf" THEN 1
           ELSE IF a.k = "ninf" THEN -1
           ELSE IF a.v > 0 THEN 1 ELSE IF a.v < 0 THEN -1 ELSE 0

Signed(s) == IF s > 0 THEN PosInf ELSE IF s < 0 THEN NegInf ELSE NaN

\* the float of sign s and magnitude mag / Unit
Rounded(s, mag) == IF mag > MaxFloat * Unit THEN Signed(s) ELSE Num(s * mag)

\* A natural number too wide for one integer is the pair [h, l] that stands
\* for h * Unit + l, with 0 <= l < Unit.
Wide(h, l) == [h |-> h, l |-> l]

\* the product of two naturals, each below UnitRoot * 46340, as a wide number
WMul(a, b) ==
    LET a1 == a \div UnitRoot
        a0 == a % UnitRoot
        b1 == b \div UnitRoot
        b0 == b % UnitRoot
        m1 == a1 * b0
        m2 == a0 * b1
        low == (((m1 % UnitRoot) + (m2 % UnitRoot)) * UnitRoot) + (a0 * b0)
    IN Wide((a1 * b1) + (m1 \div UnitRoot) + (m2 \div UnitRoot) + (low \div Unit),
            low % Unit)

WAdd(a, b) == Wide(a.h + b.h + ((a.l + b.l) \div Unit), (a.l + b.l) % Unit)

WLe(a, b) == a.h < b.h \/ (a.h = b.h /\ a.l <= b.l)

\* [q, r, c] with q + r / c = x * Unit / y, 0 <= r < c, for naturals x <= y:
\* two digits in base UnitRoot.  A divisor beyond MaxFloat * UnitRoot (and
\* the dividend with it) is first scaled down to keep x * UnitRoot within
\* the integers, which costs the quotient less than 1 / Unit of its value.
FracDiv(x, y) ==
    LET s == (y \div (MaxFloat * UnitRoot)) + 1
        c == y \div s
        r0 == x \div s
        q1 == (r0 * UnitRoot) \div c
        r1 == (r0 * UnitRoot) % c
    IN [q |-> (q1 * UnitRoot) + ((r1 * UnitRoot) \div c),
        r |-> (r1 * UnitRoot) % c,
        c |-> c]

\* the product of two naturals in 1 / Unit, rounded to the nearest
MulUnits(a, b) ==
    LET p == WMul(a, b) IN p.h + (IF 2 * p.l >= Unit THEN 1 ELSE 0)

FNeg(a) == IF IsNum(a) THEN Num(-a.v)
           ELSE IF a.k = "inf" THEN NegInf
           ELSE IF a.k = "ninf" THEN PosInf ELSE NaN

FAdd(a, b) ==
    IF IsNaN(a) \/ IsNaN(b) THEN NaN
    ELSE IF IsNum(a) /\ IsNum(b)
         THEN IF Sign(a) = Sign(b) /\ Abs(a.v) > (MaxFloat * Unit) - Abs(b.v)
              THEN Signed(Sign(a))
              ELSE Num(a.v + b.v)
    ELSE IF IsNum(a) THEN b
    ELSE IF IsNum(b) THEN a
    ELSE IF a.k = b.k THEN a ELSE NaN

FSub(a, b) == FAdd(a, FNeg(b))

\* the product rounded to the nearest multiple of 1 / Unit
FMul(a, b) ==
    IF IsNaN(a) \/ IsNaN(b) THEN NaN
    ELSE IF IsNum(a) /\ IsNum(b)
         THEN IF Abs(b.v) >= UnitRoot
                 /\ (Abs(a.v) \div UnitRoot) > (MaxFloat * Unit) \div (Abs(b.v) \div UnitRoot)
              THEN Signed(Sign(a) * Sign(b))
              ELSE Rounded(Sign(a) * Sign(b), MulUnits(Abs(a.v), Abs(b.v)))
    ELSE Signed(Sign(a) * Sign(b))

\* numpy's true division: x / 0 is nan or an infinity, never an exception
FDiv(a, b) ==
    IF IsNaN(a) \/ IsNaN(b) THEN NaN
    ELSE IF IsNum(a) /\ IsNum(b)
         THEN IF b.v = 0 THEN Signed(Sign(a))
              ELSE LET x == Abs(a.v)
                       y == Abs(b.v)
                       f == FracDiv(x % y, y)
                   IN IF x \div y > MaxFloat THEN Signed(Sign(a) * Sign(b))
                      ELSE Rounded(Sign(a) * Sign(b),
                                   ((x \div y) * Unit) + f.q
                                   + (IF 2 * f.r >= f.c THEN 1 ELSE 0))
    ELSE IF IsNum(a) THEN Num(0)
    ELSE IF IsNum(b) THEN Signed(Sign(a) * (IF b.v < 0 THEN -1 ELSE 1))
    ELSE NaN

\* r * r <= n, for naturals within the integers
SquareFits(r, n) == r <= 46340 /\ r * r <= n

\* the largest r = lo + k * step, k in 0..35, with r * r <= n
ISqrtStep(n, lo, step) ==
    lo + (step * (CHOOSE k \in 0..35 : /\ SquareFits(lo + (k * step), n)
                                       /\ (k = 35 \/ ~SquareFits(lo + ((k + 1) * step), n))))

\* largest r with r * r <= n: its three digits in base 36
ISqrt(n) == ISqrtStep(n, ISqrtStep(n, ISqrtStep(n, 0, 1296), 36), 1)

\* the largest r = lo + k * step, k in 0..31, with r * r <= w
WSqrtStep(w, lo, step) ==
    lo + (step * (CHOOSE k \in 0..31 :
                     /\ WLe(WMul(lo + (k * step), lo + (k * step)), w)
                     /\ (k = 31 \/ ~WLe(WMul(lo + ((k + 1) * step), lo + ((k + 1) * step)), w))))

\* largest r with r * r <= w; it lies between UnitRoot * ISqrt(w.h) and
\* UnitRoot * (ISqrt(w.h) + 1), two digits in base 32 above the former
WSqrt(w) ==
    LET lo == ISqrt(w.h) * UnitRoot IN WSqrtStep(w, WSqrtStep(w, lo, 32), 1)

\* np.sqrt
FSqrt(a) ==
    IF IsNum(a) THEN (IF a.v < 0 THEN NaN ELSE Num(WSqrt(Wide(a.v, 0))))
    ELSE IF a.k = "inf" THEN PosInf ELSE NaN

\* log(2) = 0.693147...
Ln2 == ((693 * Unit) \div 1000) + ((147 * Unit) \div 1000000)

\* the exponent e with Unit <= u / 2^e < 2 * Unit, for a natural u > 0
Exponent(u) ==
    IF u < Unit
    THEN -(CHOOSE k \in 1..31 : /\ u >= ((Unit - 1) \div (2^k)) + 1
                                /\ u < ((Unit - 1) \div (2^(k - 1))) + 1)
    ELSE CHOOSE k \in 0..31 : u \div (2^k) >= Unit /\ u \div (2^k) < 2 * Unit

RECURSIVE AtanhTerms(_, _, _)
\* z^k / k + z^(k+2) / (k+2) + ... + z^15 / 15, given z^2 and power = z^(k-2)
AtanhTerms(z2, power, k) ==
    IF k > 15 THEN 0
    ELSE LET next == MulUnits(power, z2)
         IN (next \div k) + AtanhTerms(z2, next, k + 2)

\* atanh(z) = z + z^3 / 3 + z^5 / 5 + ... for 0 <= z <= 1 / 3, to z^15
AtanhSeries(z) == z + AtanhTerms(MulUnits(z, z), z, 3)

\* np.log: log(m * 2^e) = 2 * atanh((m - 1) / (m + 1)) + e * log(2)
FLog(a) ==
    IF IsNum(a)
    THEN IF a.v < 0 THEN NaN
         ELSE IF a.v = 0 THEN NegInf
         ELSE LET e == Exponent(a.v)
                  m == IF e < 0 THEN a.v * (2^(-e)) ELSE a.v \div (2^e)
                  z == FDiv(Num(m - Unit), Num(m + Unit)).v
              IN Num((2 * AtanhSeries(z)) + (e * Ln2))
    ELSE IF a.k = "inf" THEN PosInf ELSE NaN

RECURSIVE ExpTerms(_, _, _)
\* r^k / k! + ... + r^12 / 12!, given term = r^(k-1) / (k-1)!
ExpTerms(r, term, k) ==
    IF k > 12 THEN 0
    ELSE LET next == MulUnits(term, r) \div k
         IN next + ExpTerms(r, next, k + 1)

\* exp(r) = 1 + r + r^2 / 2! + ... for 0 <= r < log(2), to r^12 / 12!
ExpSeries(r) == (Unit + r) + ExpTerms(r, r, 2)

\* grown * 2^e, or its inverse
ExpScaled(positive, e, grown) ==
    IF positive
    THEN (IF e > 10 THEN PosInf ELSE Rounded(1, grown * (2^e)))
    ELSE (IF e > 30 THEN Num(0)
          ELSE Num((FDiv(Num(Unit), Num(grown)).v + ((2^e) \div 2)) \div (2^e)))

\* np.exp: exp(e * log(2) + r) = exp(r) * 2^e, and exp(-x) = 1 / exp(x)
FExp(a) ==
    IF IsNum(a)
    THEN ExpScaled(a.v >= 0, Abs(a.v) \div Ln2, ExpSeries(Abs(a.v) % Ln2))
    ELSE IF a.k = "ninf" THEN Num(0) ELSE a

RECURSIVE FSumRange(_, _, _)
\* s[lo] + ... + s[hi], summed pairwise
FSumRange(s, lo, hi) ==
    IF lo > hi THEN Num(0)
    ELSE IF lo = hi THEN s[lo]
    ELSE LET mid == (lo + hi) \div 2
         IN FAdd(FSumRange(s, lo, mid), FSumRange(s, mid + 1, hi))

FSum(s) == FSumRange(s, 1, Len(s))

\* np.mean: the mean of no value is nan (numpy warns, it does not raise)
FMean(s) == FDiv(FSum(s), FromInt(Len(s)))

RECURSIVE SumRange(_, _, _)
SumRange(d, lo, hi) ==
    IF lo > hi THEN 0
    ELSE IF lo = hi THEN d[lo]
    ELSE LET mid == (lo + hi) \div 2
         IN SumRange(d, lo, mid) + SumRange(d, mid + 1, hi)

RECURSIVE SquareSumRange(_, _, _)
\* d[lo]^2 + ... + d[hi]^2 as a wide number
SquareSumRange(d, lo, hi) ==
    IF lo > hi THEN Wide(0, 0)
    ELSE IF lo = hi THEN WMul(Abs(d[lo]), Abs(d[lo]))
    ELSE LET mid == (lo + hi) \div 2
         IN WAdd(SquareSumRange(d, lo, mid), SquareSumRange(d, mid + 1, hi))

\* The population variance, in 1 / Unit^2, of the integers v: with d the
\* deviations from the rounded mean m,
\* sum((v - mean)^2) = sum(d^2) - sum(d)^2 / n.
Variance(v, m) ==
    LET n == Len(v)
        d == [i \in 1..n |-> v[i] - m]
        squares == SquareSumRange(d, 1, n)
        c == (SumRange(d, 1, n) * SumRange(d, 1, n)) \div n
        total == IF squares.l >= c THEN Wide(squares.h, squares.l - c)
                 ELSE Wide(squares.h - 1, (squares.l + Unit) - c)
    IN Wide(total.h \div n, (((total.h % n) * Unit) + total.l) \div n)

\* np.std: the population standard deviation sqrt(mean(|x - mean(x)|^2)).
\* Values beyond 20 are taken in 1 / UnitRoot, which keeps their squares
\* within the integers.
FStd(s) ==
    LET n == Len(s)
        m == FMean(s)
    IN IF n = 0 \/ \E i \in 1..n : ~IsNum(s[i]) THEN NaN
       ELSE IF ~IsNum(m) THEN PosInf
       ELSE IF \E i \in 1..n : Abs(s[i].v) > 20 * Unit
            THEN Num(UnitRoot * WSqrt(Variance([i \in 1..n |-> s[i].v \div UnitRoot],
                                               m.v \div UnitRoot)))
       ELSE Num(WSqrt(Variance([i \in 1..n |-> s[i].v], m.v)))


-----------------------------------------------------------------------------
(* numpy's RandomState: the Mersenne Twister MT19937 and the legacy        *)
(* variates drawn from it.  A 32-bit word is the pair [h, l] of its 16-bit *)
(* halves.                                                                 *)

Word(h, l) == [h |-> h, l |-> l]

RECURSIVE Bitwise(_, _, _, _)
\* two numbers of width bits combined bit by bit, by "xor" or by "and"
Bitwise(op, a, b, width) ==
    IF width = 1 THEN (IF op = "xor" THEN (a + b) % 2 ELSE a * b)
    ELSE LET low == width \div 2
         IN Bitwise(op, a % (2^low), b % (2^low), low)
            + ((2^low) * Bitwise(op, a \div (2^low), b \div (2^low), width - low))

\* a ^ b and a & b
WordOp(op, a, b) == Word(Bitwise(op, a.h, b.h, 16), Bitwise(op, a.l, b.l, 16))
WordXor(a, b) == WordOp("xor", a, b)
WordAnd(a, b) == WordOp("and", a, b)

\* w >> n
ShiftRight(w, n) ==
    IF n >= 16 THEN Word(0, w.h \div (2^(n - 16)))
    ELSE Word(w.h \div (2^n), ((w.h % (2^n)) * (2^(16 - n))) + (w.l \div (2^n)))

\* w << n, for n < 16
ShiftLeft(w, n) ==
    Word(((w.h * (2^n)) % 65536) + (w.l \div (2^(16 - n))), (w.l * (2^n)) % 65536)

\* the 32-bit product of two 16-bit numbers
Mul16(a, b) ==
    LET p == a * (b \div 256)
        t == ((p % 256) * 256) + (a * (b % 256))
    IN Word((p \div 256) + (t \div 65536), t % 65536)

\* a * c mod 2^32
WordMul(a, c) ==
    LET low == Mul16(a.l, c.l)
    IN Word((low.h + Mul16(a.h, c.l).l + Mul16(a.l, c.h).l) % 65536, low.l)

\* a + n mod 2^32, for a small n
WordAdd(a, n) ==
    Word((a.h + ((a.l + n) \div 65536)) % 65536, (a.l + n) % 65536)

\* init_genrand: key[pos] = 1812433253 * (key[pos-1] ^ (key[pos-1] >> 30)) + pos
KeyNext(w, pos) ==
    WordAdd(WordMul(WordXor(w, ShiftRight(w, 30)), Word(27655, 35173)), pos)

RECURSIVE KeysAfter(_, _, _)
\* the n key words that follow the word w of position pos - 1
KeysAfter(w, pos, n) ==
    IF n = 0 THEN <<>>
    ELSE IF n = 1 THEN <<KeyNext(w, pos)>>
    ELSE LET half == n \div 2
             left == KeysAfter(w, pos, half)
         IN left \o KeysAfter(left[half], pos + half, n - half)

\* the 624 words of the state RandomState(seed) starts from
mt19937_seed(seed) ==
    LET first == Word(seed \div 65536, seed % 65536)
    IN <<first>> \o KeysAfter(first, 1, 623)

\* one word of the next state: the top bit of a and the low 31 bits of b,
\* shifted, and xor-ed with the matrix 0x9908b0df when odd
Twist(a, b) ==
    LET y == Word(((a.h \div 32768) * 32768) + (b.h % 32768), b.l)
        s == ShiftRight(y, 1)
    IN IF y.l % 2 = 1 THEN WordXor(s, Word(39176, 45279)) ELSE s

\* The state that follows the state mt.  The generator updates it in place:
\* word i is word i + 397 (beyond the end: the new word i - 227) xor the
\* twist of the words i and i + 1 (after the last: the new first word).
mt19937_gen(mt) ==
    LET new[i \in 1..624] ==
            WordXor(IF i <= 227 THEN mt[i + 397] ELSE new[i - 227],
                    Twist(mt[i], IF i = 624 THEN new[1] ELSE mt[i + 1]))
    IN new

\* the tempering of an output word (masks 0x9d2c5680 and 0xefc60000)
Temper(w) ==
    LET y1 == WordXor(w, ShiftRight(w, 11))
        y2 == WordXor(y1, WordAnd(ShiftLeft(y1, 7), Word(40236, 22144)))
        y3 == WordXor(y2, WordAnd(ShiftLeft(y2, 15), Word(61382, 0)))
    IN WordXor(y3, ShiftRight(y3, 18))

\* the seeds the model draws, and the initial state of each
Seeds == {0, 1}
RandomStates == [seed \in Seeds |-> mt19937_seed(seed)]

\* the state RandomState(seed) starts from
InitialState(seed) ==
    IF seed \in Seeds THEN RandomStates[seed] ELSE mt19937_seed(seed)

RECURSIVE Block(_, _)
\* the state from which the words 624 * b .. 624 * b + 623 are read
Block(seed, b) ==
    mt19937_gen(IF b = 0 THEN InitialState(seed) ELSE Block(seed, b - 1))

\* the 32-bit word the generator seeded with seed returns after i others
Output(seed, i) == Temper(Block(seed, i \div 624)[(i % 624) + 1])

\* the first words of the model's seeds, computed once
FirstWords == [seed \in Seeds |-> [i \in 0..127 |-> Output(seed, i)]]

next_uint32(seed, i) ==
    IF seed \in Seeds /\ i < 128 THEN FirstWords[seed][i] ELSE Output(seed, i)

\* The state of a RandomState: the seed it was built from, the number of
\* words it has returned, and the variate legacy_gauss holds back.
SeedState(random_state) ==
    [seed |-> random_state, pos |-> 0, has_gauss |-> FALSE, gauss |-> Num(0)]

\* the state after k more words
RngAfter(s, k) == [s EXCEPT !.pos = s.pos + k]

\* rng.random_integers(0, 1): the k-th variate drawn from state s is the
\* low bit of the k-th word
RandomInteger01(s, k) == next_uint32(s.seed, s.pos + k - 1).l % 2

\* The double in [0, 1) made of two words, (a * 2^26 + b) / 2^53 with
\* a = w1 >> 5 and b = w2 >> 6, in 1 / Unit: b weighs less than 1 / Unit.
legacy_double(seed, pos) ==
    LET w1 == next_uint32(seed, pos)
    IN FracDiv((w1.h * 2048) + (w1.l \div 32), 134217728).q

\* a point of (-1, 1): 2.0 * legacy_double() - 1.0
legacy_point(seed, pos) == Num((2 * legacy_double(seed, pos)) - Unit)

\* f * x2 and f * x1 for f = sqrt(-2 log(r2) / r2), as amplitude / radius
GaussPair(x1, x2, amplitude, radius, pos) ==
    [first |-> FMul(amplitude, FDiv(x2, radius)),
     second |-> FMul(amplitude, FDiv(x1, radius)),
     pos |-> pos]

RECURSIVE legacy_gauss(_, _)
\* the point (x1, x2) is accepted when r2 = x1^2 + x2^2 is in (0, 1)
PolarStep(seed, pos, x1, x2, r2) ==
    IF r2.v >= Unit \/ r2.v = 0 THEN legacy_gauss(seed, pos + 4)
    ELSE GaussPair(x1, x2, FSqrt(FMul(FromInt(2), FNeg(FLog(r2)))), FSqrt(r2),
                   pos + 4)

PolarPoint(seed, pos, x1, x2) ==
    PolarStep(seed, pos, x1, x2, FAdd(FMul(x1, x1), FMul(x2, x2)))

\* The polar Box-Muller step: two points x1, x2 of (-1, 1) are drawn until
\* r2 = x1^2 + x2^2 is in (0, 1); with f = sqrt(-2 log(r2) / r2) it returns
\* f * x2 (first) and holds f * x1 back (second).
legacy_gauss(seed, pos) ==
    PolarPoint(seed, pos, legacy_point(seed, pos), legacy_point(seed, pos + 2))

RECURSIVE StandardNormal(_, _)
\* rng.normal() k times from state s: the variates and the state after.
\* One call returns the variate held back, if any, else draws a pair.
StandardNormal(s, k) ==
    IF k = 0 THEN [values |-> <<>>, rng |-> s]
    ELSE IF k = 1
         THEN IF s.has_gauss
              THEN [values |-> <<s.gauss>>,
                    rng |-> [s EXCEPT !.has_gauss = FALSE, !.gauss = Num(0)]]
              ELSE LET g == legacy_gauss(s.seed, s.pos)
                   IN [values |-> <<g.first>>,
                       rng |-> [s EXCEPT !.pos = g.pos, !.has_gauss = TRUE,
                                         !.gauss = g.second]]
    ELSE LET left == StandardNormal(s, k \div 2)
             right == StandardNormal(left.rng, k - (k \div 2))
         IN [values |-> left.values \o right.values, rng |-> right.rng]

-----------------------------------------------------------------------------
(* mk_data (lines 16-28), one step per statement that draws or may raise.  *)

\* rng = np.random.RandomState(random_state): seeded by the argument alone.
\* The mutant takes the module-level generator's state instead.
NewRandomState_global(random_state) == np_random.state
NewRandomState(random_state) == SeedState(random_state)

\* y = rng.random_integers(0, 1, size=n_samples)
DrawLabels(s, n_samples) == [i \in 1..n_samples |-> RandomInteger01(s, i)]

\* noise = rng.normal(size=(n_samples, dim)), filled row by row: the array
\* and the state of the generator after the draw
NoiseArray(drawn, n_samples, dim) ==
    [noise |-> [i \in 1..n_samples |->
                  [j \in 1..dim |-> drawn.values[((i - 1) * dim) + j]]],
     rng |-> drawn.rng]

DrawNoise(s, n_samples, dim) ==
    NoiseArray(StandardNormal(s, n_samples * dim), n_samples, dim)

\* the `if` of line 21
Smoothed(noise_corr) == noise_corr.k # "none" /\ Sign(noise_corr) > 0

\* scipy's mode='reflect' extension (d c b a | a b c d | d c b a), 0-based
Reflect(i, n) == LET m == i % (2 * n) IN IF m < n THEN m ELSE (2 * n) - 1 - m

\* the radius of the kernel: int(4.0 * sigma + 0.5)
Radius(sigma) == ((4 * sigma.v) + (Unit \div 2)) \div Unit

\* exp(-0.5 / sigma^2 * x^2)
Phi(x, sigma) ==
    IF x = 0 THEN FromInt(1)
    ELSE FExp(FNeg(FDiv(FromInt(x * x), FMul(FromInt(2), FMul(sigma, sigma)))))

\* the sum of the 2 * radius + 1 weights of the symmetric kernel
KernelSum(phi, radius) ==
    FSub(FMul(FromInt(2), FSum([d \in 1..(radius + 1) |-> phi[d - 1]])), phi[0])

\* the weights at the offsets 0..radius, normalised to the sum 1
KernelWeights(phi, total, radius) == [x \in 0..radius |-> FDiv(phi[x], total)]

KernelOf(phi, radius) == KernelWeights(phi, KernelSum(phi, radius), radius)

\* the kernel of gaussian_filter1d (@@ <<>> tabulates a function)
GaussianKernel(sigma) ==
    KernelOf([x \in 0..Radius(sigma) |-> Phi(x, sigma)] @@ <<>>, Radius(sigma))

\* every column correlated with the kernel along the samples
Correlate1d(noise, weights, radius, n_samples, dim) ==
    [i \in 1..n_samples |-> [j \in 1..dim |->
        FSum([d \in 1..((2 * radius) + 1) |->
                FMul(weights[Abs(d - radius - 1)],
                     noise[Reflect(i + d - radius - 2, n_samples) + 1][j])])]]

\* ndimage.gaussian_filter1d(noise, noise_corr, axis=0)
GaussianFilter1d(noise, sigma, n_samples, dim) ==
    Correlate1d(noise, GaussianKernel(sigma) @@ <<>>, Radius(sigma), n_samples, dim)

\* line 23: noise / noise.std(axis=0), every column scaled by its std
Scaled(noise, std, n_samples, dim) ==
    [i \in 1..n_samples |-> [j \in 1..dim |-> FDiv(noise[i][j], std[j])]]

ColumnStd(noise, n_samples, dim) ==
    [j \in 1..dim |-> FStd([r \in 1..n_samples |-> noise[r][j]])]

StdScaled(noise, n_samples, dim) ==
    Scaled(noise, ColumnStd(noise, n_samples, dim) @@ <<>>, n_samples, dim)

\* lines 21-23: the optional smoothing, then the scaling
Normalise(noise, noise_corr, n_samples, dim) ==
    StdScaled(IF Smoothed(noise_corr)
              THEN GaussianFilter1d(noise, noise_corr, n_samples, dim) @@ <<>>
              ELSE noise,
              n_samples, dim)

\* lines 25-26: centers = 4. / dim * ones((2, dim)); centers[0] *= -1
Center(label, dim) ==
    LET c == FDiv(FromInt(4), FromInt(dim)) IN IF label = 0 THEN FNeg(c) ELSE c

\* line 27: X = separability * centers[y] + noise
Features(separability, y, noise, n_samples, dim) ==
    [i \in 1..n_samples |-> [j \in 1..dim |->
        FAdd(FMul(separability, Center(y[i], dim)), noise[i][j])]]

\* The values of noise_corr the model calls mk_data with: no smoothing
\* (None, 0), sigma = 1 and the default of line 17, sigma = 2.
NoiseCorrs == {None, FromInt(0), FromInt(1), FromInt(2)}

\* The generator states from which the model's calls draw their noise: a
\* state seeded at line 18, or the module-level generator's, after the
\* label draw.
NoiseStates ==
    [n \in 0..MaxSamples |->
        {RngAfter(SeedState(seed), n) : seed \in Seeds}
        \cup {RngAfter(SeedState(0), n + k) : k \in 0..MaxGlobalDraws}]

\* line 20 for these states, computed once
NoiseArrays ==
    [n \in 0..MaxSamples |-> [dim \in 0..MaxDim |->
        [s \in NoiseStates[n] |-> DrawNoise(s, n, dim)]]]

Drawn(s, n_samples, dim) ==
    IF n_samples \in 0..MaxSamples /\ dim \in 0..MaxDim /\ s \in NoiseStates[n_samples]
    THEN NoiseArrays[n_samples][dim][s]
    ELSE DrawNoise(s, n_samples, dim)

\* lines 21-23 for these arrays, computed once
NormalisedArrays ==
    [n \in 1..MaxSamples |-> [dim \in 1..MaxDim |->
        [noise \in {NoiseArrays[n][dim][s].noise : s \in NoiseStates[n]} |->
            [noise_corr \in NoiseCorrs |-> Normalise(noise, noise_corr, n, dim)]]]]

Normalised(noise, noise_corr, n_samples, dim) ==
    IF /\ n_samples \in 1..MaxSamples /\ dim \in 1..MaxDim
       /\ noise_corr \in NoiseCorrs
       /\ noise \in DOMAIN NormalisedArrays[n_samples][dim]
    THEN NormalisedArrays[n_samples][dim][noise][noise_corr]
    ELSE Normalise(noise, noise_corr, n_samples, dim)

\* The statement of mk_data that raises for these arguments, 0 when none does:
\* a negative size is refused by the generator (ValueError at line 19 for
\* n_samples, at line 20 for dim) and 4. / dim raises ZeroDivisionError.
MkDataRaisesAt(n_samples, dim) ==
    IF n_samples < 0 THEN 19
    ELSE IF dim < 0 THEN 20
    ELSE IF dim = 0 THEN 25
    ELSE 0

Callers == {"a", "b"}

dataVars == <<calls, np_random>>
trialVars == <<frame>>
semVars == <<sem_in, sem_out>>
driverVars == <<oracle, d_pc, size_idx, dispatched, running, out, line_idx,
                results, csv>>

MkDataArgs(n, seed, sep, nc, dim) ==
    [n_samples |-> n, random_state |-> seed, separability |-> sep,
     noise_corr |-> nc, dim |-> dim]

\* The arguments the model calls mk_data with: every valid configuration
\* within the bounds and the invalid ones next to them.  gaussian_filter1d is
\* not modelled on an array without rows or columns, so the invalid
\* configurations are drawn without smoothing.
MkDataInputs ==
    { MkDataArgs(n, seed, FromInt(1), nc, dim) :
        n \in 1..MaxSamples, seed \in Seeds, nc \in NoiseCorrs, dim \in 1..MaxDim }
    \cup
    { MkDataArgs(n, 0, FromInt(1), nc, dim) :
        n \in -1..1, nc \in {None, FromInt(0)}, dim \in -1..1 }

IdleCall == [pc |-> "idle", args |-> MkDataArgs(0, 0, Num(0), None, 0),
             rng |-> SeedState(0), drawn |-> 0, y |-> <<>>, noise |-> <<>>, X |-> <<>>,
             err |-> "none"]

Raise(c, error) ==
    calls' = [calls EXCEPT ![c].pc = "raised", ![c].err = error]

\* a caller enters mk_data with some arguments
Invoke(c) ==
    /\ calls[c].pc = "idle"
    /\ \E a \in MkDataInputs :
         calls' = [calls EXCEPT ![c] = [IdleCall EXCEPT !.pc = "l18", !.args = a]]
    /\ UNCHANGED <<np_random, trialVars, semVars, driverVars>>

\* line 18
L18(c) ==
    /\ calls[c].pc = "l18"
    /\ calls' = [calls EXCEPT ![c].pc = "l19",
                              ![c].rng = NewRandomState(calls[c].args.random_state)]
    /\ UNCHANGED <<np_random, trialVars, semVars, driverVars>>

\* line 19
L19(c) ==
    LET f == calls[c]
        n == f.args.n_samples
    IN /\ f.pc = "l19"
       /\ IF MkDataRaisesAt(n, f.args.dim) = 19
          THEN Raise(c, "ValueError")
          ELSE calls' = [calls EXCEPT ![c].pc = "l20",
                                      ![c].y = DrawLabels(f.rng, n),
                                      ![c].rng = RngAfter(f.rng, n),
                                      ![c].drawn = f.drawn + n]
       /\ UNCHANGED <<np_random, trialVars, semVars, driverVars>>

\* noise = rng.normal(...) binds the array and advances the generator
Assign20(c, drawn) ==
    calls' = [calls EXCEPT ![c].pc = "l21",
                           ![c].noise = drawn.noise,
                           ![c].rng = drawn.rng,
                           ![c].drawn = calls[c].drawn
                                        + (calls[c].args.n_samples * calls[c].args.dim)]

\* line 20
L20(c) ==
    LET f == calls[c]
        n == f.args.n_samples
        dim == f.args.dim
    IN /\ f.pc = "l20"
       /\ IF MkDataRaisesAt(n, dim) = 20
          THEN Raise(c, "ValueError")
          ELSE Assign20(c, Drawn(f.rng, n, dim))
       /\ UNCHANGED <<np_random, trialVars, semVars, driverVars>>

\* lines 21-23
L21(c) ==
    LET f == calls[c]
    IN /\ f.pc = "l21"
       /\ calls' = [calls EXCEPT ![c].pc = "l25",
                       ![c].noise = Normalised(f.noise, f.args.noise_corr,
                                               f.args.n_samples, f.args.dim)]
       /\ UNCHANGED <<np_random, trialVars, semVars, driverVars>>

\* lines 25-28
L25(c) ==
    LET f == calls[c]
    IN /\ f.pc = "l25"
       /\ IF MkDataRaisesAt(f.args.n_samples, f.args.dim) = 25
          THEN Raise(c, "ZeroDivisionError")
          ELSE calls' = [calls EXCEPT ![c].pc = "returned",
                            ![c].X = Features(f.args.separability, f.y, f.noise,
                                              f.args.n_samples, f.args.dim)]
       /\ UNCHANGED <<np_random, trialVars, semVars, driverVars>>

\* the caller takes the result (or the exception) and the frame is dropped
Leave(c) ==
    /\ calls[c].pc \in {"returned", "raised"}
    /\ calls' = [calls EXCEPT ![c] = IdleCall]
    /\ UNCHANGED <<np_random, trialVars, semVars, driverVars>>

\* Code outside mk_data draws from numpy's module-level generator (LinearSVC
\* is built at line 51 without a random_state, so its fit does).
GlobalDraw ==
    /\ np_random.draws < MaxGlobalDraws
    /\ np_random' = [state |-> RngAfter(np_random.state, 1),
                     draws |-> np_random.draws + 1]
    /\ UNCHANGED <<calls, trialVars, semVars, driverVars>>

DataIdle ==
    /\ calls = [c \in Callers |-> IdleCall]
    /\ np_random = [state |-> SeedState(0), draws |-> 0]

OtherIdle ==
    /\ frame = [called |-> FALSE] /\ sem_in = <<>> /\ sem_out = <<>> /\ oracle = <<>>
    /\ d_pc = "idle" /\ size_idx = 0 /\ dispatched = 0 /\ running = {}
    /\ out = <<>> /\ line_idx = 0 /\ results = <<>> /\ csv = <<>>

InitData == DataIdle /\ OtherIdle

NextData ==
    \/ \E c \in Callers : Invoke(c)
    \/ \E c \in Callers : L18(c)
    \/ \E c \in Callers : L19(c)
    \/ \E c \in Callers : L20(c)
    \/ \E c \in Callers : L21(c)
    \/ \E c \in Callers : L25(c)
    \/ \E c \in Callers : Leave(c)
    \/ GlobalDraw

SpecData == InitData /\ [][NextData]_vars

-----------------------------------------------------------------------------
(* sample_and_cross_val_clf (lines 46-99).  The function is sequential; a  *)
(* call is one step that runs it from line 51 to its return or to the      *)
(* statement whose exception leaves it.  What scikit-learn returns or      *)
(* raises is the environment of the call, env.                             *)

\* line 53: the rows generated beyond the training subset
N_VALIDATION == 10000

\* line 140: the train sizes of the sweep
TRAIN_SIZES == <<30, 100, 200, 250, 300, 1000>>

\* largest train_size of a modelled trial outside the sweep
MaxTrainSize == 30

Min(a, b) == IF a < b THEN a ELSE b
Max(a, b) == IF a > b THEN a ELSE b

\* Python's X[:k] and X[k:] on n rows, as the half-open range of row
\* indices [start, stop) they select (a negative k counts from the end)
PySliceTo(k, n) ==
    [start |-> 0, stop |-> IF k < 0 THEN Max(n + k, 0) ELSE Min(k, n)]
PySliceFrom(k, n) ==
    [start |-> IF k < 0 THEN Max(n + k, 0) ELSE Min(k, n), stop |-> n]

\* lines 57-58: X_train = X[:train_size], y_train = y[:train_size]
TrainSlice(train_size, n_samples) == PySliceTo(train_size, n_samples)

\* lines 59-60: X_test = X[train_size:], y_test = y[train_size:].  The
\* mutant starts the validation subset one row early.
TestSlice_early(train_size, n_samples) == PySliceFrom(train_size - 1, n_samples)
TestSlice(train_size, n_samples) == PySliceFrom(train_size, n_samples)

\* line 67: groups = np.arange(train_size) // (train_size // 10); numpy's
\* integer floor division by zero yields 0 (with a warning), it does not raise
Groups(train_size) ==
    LET block == train_size \div 10
    IN [i \in 1..train_size |-> IF block = 0 THEN 0 ELSE (i - 1) \div block]

\* lines 70-74: the two strategies in loop order, with the number of scores
\* cross_val_score returns for each (n_splits * n_repeats, and n_splits)
Strategies ==
    <<[name |-> "10 repeated 10-fold", n_scores |-> 10 * 10],
      [name |-> "50 splits", n_scores |-> 50]>>

\* an array of n scores: a in its first half, b in the rest
TwoValued(n, a, b) == [i \in 1..n |-> IF 2 * i <= n THEN a ELSE b]

\* lines 76-77: what cross_val_score returns when it does not raise
CrossValScore(st, env) == TwoValued(st.n_scores, env.cv[st.name].a, env.cv[st.name].b)

\* Lines 75-85: the value cv_scores has after the try statement of the
\* iteration for strategy st; prev is the value it had before (the variable
\* is a local of the function and survives from one iteration to the next).
\* The mutant lacks the else branch of line 84.
CvScores_noelse(st, env, prev) ==
    IF ~env.cv[st.name].raises THEN CrossValScore(st, env)
    ELSE IF st.name = "10 repeated 10-fold"
         THEN IF ~env.pooled.raises THEN <<env.pooled.score>> ELSE <<NaN>>
         ELSE prev
CvScores(st, env, prev) ==
    IF ~env.cv[st.name].raises THEN CrossValScore(st, env)
    ELSE IF st.name = "10 repeated 10-fold"
         THEN IF ~env.pooled.raises THEN <<env.pooled.score>> ELSE <<NaN>>
         ELSE <<NaN>>

\* 6.25, the separability of the sweep (lines 43 and 139)
Sep625 == Num((625 * Unit) \div 100)
Half == Num(Unit \div 2)
One == FromInt(1)

\* what cross_val_score does for one strategy: it raises, or returns scores
\* a (first half) and b; a fold that could not be scored is nan
CvOutcomes ==
    {[raises |-> TRUE, a |-> NaN, b |-> NaN]}
    \cup {[raises |-> FALSE, a |-> x[1], b |-> x[2]] :
            x \in {<<Half, Half>>, <<Half, One>>, <<One, One>>, <<NaN, NaN>>}}

\* what the pooled fallback of line 81 does
PooledOutcomes ==
    {[raises |-> TRUE, score |-> NaN], [raises |-> FALSE, score |-> Half],
     [raises |-> FALSE, score |-> One]}

\* line 95
ScoreError(cv_scores, validation_score) == FSub(FMean(cv_scores), validation_score)

\* the value that stands for an exception leaving the expression
ZeroDivisionError == [k |-> "ZeroDivisionError", v |-> 0]

\* line 96: np.std(cv_scores) / np.sqrt(len(cv_scores)), both numpy
\* floats.  The mutant divides as Python's own floats do.
ScoreSem_pydiv(cv_scores) ==
    IF Len(cv_scores) = 0 THEN ZeroDivisionError
    ELSE FDiv(FStd(cv_scores), FSqrt(FromInt(Len(cv_scores))))
ScoreSem(cv_scores) == FDiv(FStd(cv_scores), FSqrt(FromInt(Len(cv_scores))))

\* the arrays cross_val_score returns to the model's trials
ScoreArrays ==
    {TwoValued(Strategies[i].n_scores, o.a, o.b) :
        i \in 1..Len(Strategies), o \in {c \in CvOutcomes : ~c.raises}}

\* lines 95-96 for these arrays, computed once
ScoreStatistics ==
    [cv_scores \in ScoreArrays |->
        [score_error |-> [validation_score \in {Half, One} |->
                            ScoreError(cv_scores, validation_score)],
         score_sem |-> ScoreSem(cv_scores)]]

RecordedError(cv_scores, validation_score) ==
    IF cv_scores \in ScoreArrays /\ validation_score \in {Half, One}
    THEN ScoreStatistics[cv_scores].score_error[validation_score]
    ELSE ScoreError(cv_scores, validation_score)

RecordedSem(cv_scores) ==
    IF cv_scores \in ScoreArrays THEN ScoreStatistics[cv_scores].score_sem
    ELSE ScoreSem(cv_scores)

\* lines 88-97
ResultRecord(name, args, validation_score, cv_scores) ==
    [cv_name |-> name,
     validation_score |-> validation_score,
     train_size |-> args.train_size,
     dim |-> args.dim,
     noise_corr |-> args.noise_corr,
     sep |-> args.sep,
     score_error |-> RecordedError(cv_scores, validation_score),
     score_sem |-> RecordedSem(cv_scores)]

RECURSIVE Loop(_, _, _, _, _)
\* Lines 69-97 from iteration i on: fr.cv_scores is the local cv_scores,
\* fr.scores the list built so far, fr.used the cv_scores of every record.
\* The mutant leaves the loop at the first strategy that failed.
Loop_break(i, args, env, validation_score, fr) ==
    IF i > Len(Strategies) THEN fr
    ELSE IF env.cv[Strategies[i].name].raises THEN fr
    ELSE LET cvs == CvScores(Strategies[i], env, fr.cv_scores)
         IN Loop(i + 1, args, env, validation_score,
                 [cv_scores |-> cvs,
                  used |-> Append(fr.used, cvs),
                  scores |-> Append(fr.scores,
                      ResultRecord(Strategies[i].name, args, validation_score, cvs))])
Loop(i, args, env, validation_score, fr) ==
    IF i > Len(Strategies) THEN fr
    ELSE LET cvs == CvScores(Strategies[i], env, fr.cv_scores)
         IN Loop(i + 1, args, env, validation_score,
                 [cv_scores |-> cvs,
                  used |-> Append(fr.used, cvs),
                  scores |-> Append(fr.scores,
                      ResultRecord(Strategies[i].name, args, validation_score, cvs))])

\* The line of sample_and_cross_val_clf whose exception leaves the function,
\* 0 when it returns: mk_data (line 54), the fit and the ground-truth AUC
\* (lines 62-64) are outside every try statement.  LinearSVC.fit raises
\* ValueError for a training subset whose labels are of one class only, so
\* for every subset of fewer than 2 rows.
RaisedAt(args, env) ==
    IF MkDataRaisesAt(args.train_size + N_VALIDATION, args.dim) # 0 THEN 54
    ELSE IF args.train_size < 2 \/ env.valid = "fit_raises" THEN 64
    ELSE IF env.valid = "auc_raises" THEN 62
    ELSE 0

NoFrame == [called |-> FALSE]

\* lines 69-97 of a call that got there: the loop from empty locals
RunLoop(args, env) ==
    Loop(1, args, env, env.validation_score,
         [cv_scores |-> <<>>, used |-> <<>>, scores |-> <<>>])

\* What a call gives its caller: the list `scores` of line 99, or the
\* exception of line raised_at.
sample_and_cross_val_clf(args, env) ==
    [raised_at |-> RaisedAt(args, env),
     scores |-> IF RaisedAt(args, env) = 0 THEN RunLoop(args, env).scores ELSE <<>>]

\* The frame of a call: its locals when it returned or raised.  A local the
\* call never assigned is absent (<<>>).
Frame(args, env) ==
    LET n_samples == args.train_size + N_VALIDATION
        at == RaisedAt(args, env)
        sliced == at = 0 \/ at > 60
    IN [called |-> TRUE,
        args |-> args,
        env |-> env,
        raised_at |-> at,
        n_samples |-> n_samples,
        X_train |-> IF sliced THEN TrainSlice(args.train_size, n_samples) ELSE <<>>,
        X_test |-> IF sliced THEN TestSlice(args.train_size, n_samples) ELSE <<>>,
        validation_score |-> IF at = 0 THEN env.validation_score ELSE <<>>,
        groups |-> IF at = 0 THEN Groups(args.train_size) ELSE <<>>,
        used |-> IF at = 0 THEN RunLoop(args, env).used ELSE <<>>,
        scores |-> sample_and_cross_val_clf(args, env).scores]

TrialArgs(train_size, noise_corr, dim, sep, random_state) ==
    [train_size |-> train_size, noise_corr |-> noise_corr, dim |-> dim,
     sep |-> sep, random_state |-> random_state]

\* The configurations the model runs trials with: the sweep's (line 146),
\* the function's defaults (line 46) and one without columns.
SweepConfig == [noise_corr |-> FromInt(0), dim |-> 300, sep |-> Sep625]
TrialConfigs ==
    {SweepConfig,
     [noise_corr |-> FromInt(2), dim |-> 3, sep |-> Half],
     [noise_corr |-> None, dim |-> 0, sep |-> One]}

\* every small train_size with every configuration, and the sweep's trials
TrialInputs ==
    { TrialArgs(t, c.noise_corr, c.dim, c.sep, seed) :
        t \in 0..MaxTrainSize, c \in TrialConfigs, seed \in Seeds }
    \cup
    { TrialArgs(TRAIN_SIZES[k], SweepConfig.noise_corr, SweepConfig.dim,
                SweepConfig.sep, seed) :
        k \in 1..Len(TRAIN_SIZES), seed \in Seeds }

\* The environments of a trial.  An outcome the call cannot read (the
\* library calls after the one that raised; the pooled fallback when the
\* repeated-fold strategy did not fail) is fixed to its first value.
TrialEnvs ==
    { e \in [valid : {"ok", "fit_raises", "auc_raises"},
             validation_score : {Half, One},
             cv : [{Strategies[i].name : i \in 1..Len(Strategies)} -> CvOutcomes],
             pooled : PooledOutcomes] :
        /\ e.valid # "ok" =>
              /\ e.validation_score = Half
              /\ \A i \in 1..Len(Strategies) : e.cv[Strategies[i].name].raises
        /\ (e.valid # "ok" \/ ~e.cv[Strategies[1].name].raises) => e.pooled.raises }

\* the frame on entry: the arguments are bound, nothing has run
Entry(args, env) == [called |-> FALSE, args |-> args, env |-> env]

\* the call runs to its return or to the exception that leaves it
Call ==
    /\ ~frame.called
    /\ frame' = Frame(frame.args, frame.env)
    /\ UNCHANGED <<dataVars, semVars, driverVars>>

\* the caller has the records (or the exception); the locals are dropped
Return ==
    /\ frame.called
    /\ frame' = Entry(frame.args, frame.env)
    /\ UNCHANGED <<dataVars, semVars, driverVars>>

\* a caller enters sample_and_cross_val_clf with some arguments, in some
\* environment
InitTrial ==
    /\ DataIdle
    /\ \E args \in TrialInputs, env \in TrialEnvs : frame = Entry(args, env)
    /\ sem_in = <<>> /\ sem_out = <<>> /\ oracle = <<>>
    /\ d_pc = "idle" /\ size_idx = 0 /\ dispatched = 0 /\ running = {}
    /\ out = <<>> /\ line_idx = 0 /\ results = <<>> /\ csv = <<>>

NextTrial == Call \/ Return

SpecTrial == InitTrial /\ [][NextTrial]_vars

-----------------------------------------------------------------------------
(* Lines 95-96 as a function of cv_scores alone: the record of line 88 is  *)
(* computed for collections of per-fold scores of every small length and   *)
(* for the collections a trial produces.                                   *)

\* longest arbitrary collection of per-fold scores
MaxFolds == 3

FoldScores == {Num(0), Half, One, NaN}

SemInputs ==
    UNION {[1..n -> FoldScores] : n \in 0..MaxFolds}
    \cup {CrossValScore(Strategies[i], [cv |-> [x \in {Strategies[i].name} |-> o]]) :
            i \in 1..Len(Strategies), o \in {c \in CvOutcomes : ~c.raises}}

SemArgs == TrialArgs(250, FromInt(0), 300, Sep625, 0)

InitSem ==
    /\ DataIdle
    /\ frame = NoFrame
    /\ sem_in \in SemInputs
    /\ sem_out = <<>>
    /\ oracle = <<>>
    /\ d_pc = "idle" /\ size_idx = 0 /\ dispatched = 0 /\ running = {}
    /\ out = <<>> /\ line_idx = 0 /\ results = <<>> /\ csv = <<>>

\* lines 88-97 for the collection sem_in
EmitRecord ==
    /\ sem_out = <<>>
    /\ \E name \in {Strategies[i].name : i \in 1..Len(Strategies)},
          validation_score \in {Half, One} :
         sem_out' = <<ResultRecord(name, SemArgs, validation_score, sem_in)>>
    /\ UNCHANGED <<sem_in, dataVars, trialVars, driverVars>>

NextSem == EmitRecord

SpecSem == InitSem /\ [][NextSem]_vars

-----------------------------------------------------------------------------
(* The module-level script (lines 129-152): the sweep over train_size, the *)
(* worker pool of Parallel, the appends to results and the CSV.  mem.cache *)
(* is taken as transparent: the cached function returns what the function  *)
(* returns.                                                                *)

\* line 129 (the source sets 16): the size of the worker pool
N_JOBS == 2
\* line 130 (the source sets 10000): the draws per train_size
N_DRAWS == 10

\* line 142: n_draws = N_DRAWS if train_size < 500 else N_DRAWS // 10
NDraws(train_size) == IF train_size < 500 THEN N_DRAWS ELSE N_DRAWS \div 10

\* lines 144-147: the arguments of the task with random_state = i
TaskArgs(train_size, i) ==
    TrialArgs(train_size, SweepConfig.noise_corr, SweepConfig.dim, SweepConfig.sep, i)

MkEnv(valid, validation_score, cv1, cv2, pooled) ==
    [valid |-> valid, validation_score |-> validation_score,
     cv |-> [n \in {Strategies[i].name : i \in 1..Len(Strategies)} |->
                IF n = Strategies[1].name THEN cv1 ELSE cv2],
     pooled |-> pooled]

CvRaises == [raises |-> TRUE, a |-> NaN, b |-> NaN]
PooledRaises == [raises |-> TRUE, score |-> NaN]

\* The environments of the trials of a sweep: both strategies succeed; the
\* repeated-fold strategy falls back and the group-split strategy fails; the
\* fit raises.
DriverEnvs ==
    {MkEnv("ok", One, [raises |-> FALSE, a |-> Half, b |-> One],
           [raises |-> FALSE, a |-> One, b |-> One], PooledRaises),
     MkEnv("ok", Half, CvRaises, CvRaises, [raises |-> FALSE, score |-> Half]),
     MkEnv("fit_raises", Half, CvRaises, CvRaises, PooledRaises)}

\* A sweep's oracle gives the trials with an even and those with an odd
\* random_state their environment.
Oracles == [{0, 1} -> DriverEnvs]
EnvOf(orc, random_state) == orc[random_state % 2]

\* the task of line 144 for random_state = i, run by a worker
RunTask(orc, train_size, i) ==
    sample_and_cross_val_clf(TaskArgs(train_size, i), EnvOf(orc, i))

\* line 150: results = results.append(line), line the list of the two
\* records of one trial.  The mutant appends the first record only.
AppendRows_first(table, line) == Append(table, line[1])
AppendRows(table, line) == table \o line

TrainSize == TRAIN_SIZES[size_idx]

\* line 140: the next train_size of the sweep, or the end of the loop
ForTrainSize ==
    /\ d_pc = "for_train_size"
    /\ IF size_idx < Len(TRAIN_SIZES)
       THEN /\ size_idx' = size_idx + 1
            /\ d_pc' = "parallel"
       ELSE /\ size_idx' = size_idx
            /\ d_pc' = "to_csv"
    /\ dispatched' = 0 /\ running' = {} /\ out' = <<>> /\ line_idx' = 0
    /\ UNCHANGED <<oracle, results, csv, dataVars, trialVars, semVars>>

\* line 143: the pool takes the next task of the generator, in order, while
\* a worker is free
Dispatch ==
    /\ d_pc = "parallel"
    /\ Cardinality(running) < N_JOBS
    /\ dispatched < NDraws(TrainSize)
    /\ running' = running \cup {dispatched}
    /\ dispatched' = dispatched + 1
    /\ UNCHANGED <<oracle, d_pc, size_idx, out, line_idx, results, csv,
                   dataVars, trialVars, semVars>>

\* A worker finishes the task with random_state = i: its records go to slot
\* i of the list Parallel returns; its exception is raised again in the
\* script, outside every try statement, and ends the script.
Complete(i) ==
    /\ d_pc = "parallel"
    /\ i \in running
    /\ LET r == RunTask(oracle, TrainSize, i)
       IN IF r.raised_at = 0
          THEN /\ out' = [j \in DOMAIN out \cup {i} |->
                             IF j = i THEN r.scores ELSE out[j]]
               /\ running' = running \ {i}
               /\ d_pc' = d_pc
          ELSE /\ out' = <<>>
               /\ running' = {}
               /\ d_pc' = "aborted"
    /\ UNCHANGED <<oracle, size_idx, dispatched, line_idx, results, csv,
                   dataVars, trialVars, semVars>>

\* line 143 returns: every task is done, scores is the list of their results
Gathered ==
    /\ d_pc = "parallel"
    /\ dispatched = NDraws(TrainSize)
    /\ running = {}
    /\ d_pc' = "for_line"
    /\ line_idx' = 0
    /\ UNCHANGED <<oracle, size_idx, dispatched, running, out, results, csv,
                   dataVars, trialVars, semVars>>

\* lines 149-150: one iteration of `for line in scores`, or its end
ForLine ==
    /\ d_pc = "for_line"
    /\ IF line_idx < NDraws(TrainSize)
       THEN /\ results' = AppendRows(results, out[line_idx])
            /\ line_idx' = line_idx + 1
            /\ d_pc' = d_pc
       ELSE /\ results' = results
            /\ line_idx' = line_idx
            /\ d_pc' = "for_train_size"
    /\ UNCHANGED <<oracle, size_idx, dispatched, running, out, csv,
                   dataVars, trialVars, semVars>>

\* line 152
ToCsv ==
    /\ d_pc = "to_csv"
    /\ csv' = Append(csv, results)
    /\ d_pc' = "done"
    /\ UNCHANGED <<oracle, size_idx, dispatched, running, out, line_idx, results,
                   dataVars, trialVars, semVars>>

\* after lines 129-136: results is the empty DataFrame
InitDriver ==
    /\ DataIdle
    /\ frame = NoFrame
    /\ sem_in = <<>> /\ sem_out = <<>>
    /\ oracle \in Oracles
    /\ d_pc = "for_train_size" /\ size_idx = 0 /\ dispatched = 0 /\ running = {}
    /\ out = <<>> /\ line_idx = 0 /\ results = <<>> /\ csv = <<>>

NextDriver ==
    \/ ForTrainSize
    \/ Dispatch
    \/ \E i \in running : Complete(i)
    \/ Gathered
    \/ ForLine
    \/ ToCsv

SpecDriver == InitDriver /\ [][NextDriver]_vars

-----------------------------------------------------------------------------
(* Claims about mk_data.                                                   *)

InvalidConfiguration(a) == a.dim <= 0 \/ a.n_samples <= 0

\* C5: mk_data fails fast on an invalid configuration: a call with a
\* non-positive dim or n_samples takes no draw from its pseudo-random source
\* (it never gets past the label draw or the noise draw) and never returns.
C5_FailsFastBeforeAnyDraw ==
    \A c \in Callers :
        (calls[c].pc # "idle" /\ InvalidConfiguration(calls[c].args))
            => (calls[c].drawn = 0 /\ calls[c].pc # "returned")

C8_SameArgumentsSameResult ==
    \A c, d \in Callers :
        (/\ calls[c].pc \in {"returned", "raised"}
         /\ calls[d].pc \in {"returned", "raised"}
         /\ calls[c].args = calls[d].args)
            => (/\ calls[c].pc = calls[d].pc
                /\ calls[c].err = calls[d].err
                /\ calls[c].X = calls[d].X
                /\ calls[c].y = calls[d].y)

\* C8: mk_data is deterministic: two calls with identical arguments end the
\* same way, with identical (features, labels) or with the same exception,
\* whatever ran before or between them, and no step of a mk_data call
\* changes the module-level generator or the frame of the other call.
C8_Deterministic ==
    /\ []C8_SameArgumentsSameResult
    /\ [][\A c \in Callers : calls'[c] # calls[c] =>
            /\ np_random' = np_random
            /\ \A d \in Callers \ {c} : calls'[d] = calls[d]]_vars

\* two calls with the same arguments have returned a dataset of MaxSamples
\* rows while other code drew from the module-level generator
C8_Witness ==
    /\ calls["a"].pc = "returned" /\ calls["b"].pc = "returned"
    /\ calls["a"].args = calls["b"].args
    /\ calls["a"].args.n_samples = MaxSamples
    /\ Smoothed(calls["a"].args.noise_corr)
    /\ np_random.draws > 0

-----------------------------------------------------------------------------
(* Claims about sample_and_cross_val_clf.                                  *)

Returned == frame.called /\ frame.raised_at = 0
SliceLen(sl) == Max(sl.stop - sl.start, 0)
RowsOf(sl) == sl.start .. (sl.stop - 1)

\* C1: the training and the validation subset share no row index, the
\* training subset has train_size rows, the validation subset N_VALIDATION
\* rows, and together they are all train_size + N_VALIDATION generated rows.
C1_SubsetsPartitionRows ==
    (frame.called /\ frame.X_train # <<>>) =>
        /\ frame.X_test # <<>>
        /\ SliceLen(frame.X_train) = frame.args.train_size
        /\ SliceLen(frame.X_test) = N_VALIDATION
        /\ frame.n_samples = frame.args.train_size + N_VALIDATION
        \* the two ranges are disjoint ...
        /\ \/ frame.X_train.stop <= frame.X_test.start
           \/ frame.X_test.stop <= frame.X_train.start
        \* ... lie within the generated rows and leave none out
        /\ Min(frame.X_train.start, frame.X_test.start) = 0
        /\ Max(frame.X_train.stop, frame.X_test.stop) = frame.n_samples
        /\ SliceLen(frame.X_train) + SliceLen(frame.X_test) = frame.n_samples
        /\ \A i \in RowsOf(frame.X_train) : i \notin RowsOf(frame.X_test)

\* a trial of the sweep's largest train_size has sliced its data and returned
C1_Witness ==
    /\ Returned
    /\ frame.args.train_size = TRAIN_SIZES[Len(TRAIN_SIZES)]
    /\ frame.X_train = [start |-> 0, stop |-> frame.args.train_size]
    /\ frame.X_test.start = frame.args.train_size
    /\ SliceLen(frame.X_test) = N_VALIDATION

\* C2: whichever step of a trial fails, the call still returns its two
\* result records instead of raising.
C2_TrialAlwaysReturnsRecords ==
    frame.called => (frame.raised_at = 0 /\ Len(frame.scores) = Len(Strategies))

\* C3: a call that returns, returns exactly 2 records, the first named
\* '10 repeated 10-fold' and the second '50 splits', both with the
\* validation_score computed before the loop and with the caller's
\* train_size, dim, noise_corr and sep.
C3_TwoRecordsInOrder ==
    Returned =>
        /\ Len(frame.scores) = 2
        /\ frame.scores[1].cv_name = "10 repeated 10-fold"
        /\ frame.scores[2].cv_name = "50 splits"
        /\ \A i \in 1..2 :
             /\ frame.scores[i].validation_score = frame.validation_score
             /\ frame.scores[i].validation_score = frame.env.validation_score
             /\ frame.scores[i].train_size = frame.args.train_size
             /\ frame.scores[i].dim = frame.args.dim
             /\ frame.scores[i].noise_corr = frame.args.noise_corr
             /\ frame.scores[i].sep = frame.args.sep

\* a trial returned although its first strategy fell back to the pooled
\* score and its second failed
C3_Witness ==
    /\ Returned
    /\ frame.env.cv["10 repeated 10-fold"].raises
    /\ ~frame.env.pooled.raises
    /\ frame.env.cv["50 splits"].raises
    /\ Len(frame.scores) = 2

\* C9: the group labels of a trial that ran are 10 contiguous blocks of
\* equal size: they take exactly the values 0..9, never decrease along the
\* samples, every value labels train_size / 10 samples, and the label of
\* sample i is floor(i / (train_size / 10)).
C9_TenEqualBlocks ==
    Returned =>
        LET t == frame.args.train_size
            g == frame.groups
        IN /\ {g[i] : i \in 1..t} = 0..9
           /\ \A i, j \in 1..t : i <= j => g[i] <= g[j]
           /\ \A b \in 0..9 : 10 * Cardinality({i \in 1..t : g[i] = b}) = t
           /\ \A i \in 1..t : g[i] = (10 * (i - 1)) \div t

\* the estimate the stated cascade gives strategy i in environment env
CascadeEstimate(i, env) ==
    LET o == env.cv[Strategies[i].name]
    IN IF ~o.raises THEN TwoValued(Strategies[i].n_scores, o.a, o.b)
       ELSE IF i = 1 /\ ~env.pooled.raises THEN <<env.pooled.score>>
       ELSE <<NaN>>

\* C10: each record is computed from the estimate of its own strategy: the
\* scores of cross_val_score when it succeeds; for the repeated-fold strategy
\* the single pooled score when it fails, a single nan when the pooled
\* fallback fails too; for the group-split strategy a single nan when it fails.
C10_FallbackCascade ==
    Returned =>
        \A i \in 1..Len(Strategies) :
            /\ frame.used[i] = CascadeEstimate(i, frame.env)
            /\ frame.scores[i].score_error =
                   FSub(FMean(CascadeEstimate(i, frame.env)), frame.validation_score)
            /\ frame.scores[i].score_sem =
                   FDiv(FStd(CascadeEstimate(i, frame.env)),
                        FSqrt(FromInt(Len(CascadeEstimate(i, frame.env)))))

\* the repeated-fold strategy succeeded with two different scores and the
\* group-split strategy failed
C10_Witness ==
    /\ Returned
    /\ ~frame.env.cv["10 repeated 10-fold"].raises
    /\ frame.env.cv["10 repeated 10-fold"].a # frame.env.cv["10 repeated 10-fold"].b
    /\ frame.env.cv["50 splits"].raises
    /\ frame.used[2] = <<NaN>>

-----------------------------------------------------------------------------
(* Claim about score_sem.                                                  *)

\* C4: score_sem is a number >= 0 or nan (never an exception, for any
\* number of per-fold scores, zero included), and it is exactly 0 or nan
\* when there is at most one per-fold score.
C4_ScoreSemNonNegative ==
    sem_out # <<>> =>
        LET sem == sem_out[1].score_sem
        IN /\ sem.k \in {"num", "nan"}
           /\ sem.k = "num" => sem.v >= 0
           /\ Len(sem_in) <= 1 => sem \in {Num(0), NaN}
           /\ Len(sem_in) = 1 /\ sem_in[1].k = "num" => sem = Num(0)

\* the record of a single finite score (the pooled fallback) was computed
C4_Witness ==
    /\ sem_out # <<>>
    /\ Len(sem_in) = 1
    /\ sem_in[1] = Half
    /\ sem_out[1].score_sem = Num(0)

-----------------------------------------------------------------------------
(* Claim about the driver.                                                 *)

RECURSIVE RowsBefore(_)
\* the number of rows of the train sizes before the k-th
RowsBefore(k) ==
    IF k <= 1 THEN 0
    ELSE RowsBefore(k - 1) + Len(Strategies) * NDraws(TRAIN_SIZES[k - 1])

\* the table holds, in grid order, the record of every (train_size, seed,
\* strategy) of the grid, and nothing else
OneRowPerCombination(table, orc) ==
    /\ Len(table) = RowsBefore(Len(TRAIN_SIZES) + 1)
    /\ \A k \in 1..Len(TRAIN_SIZES) :
         \A i \in 0..(NDraws(TRAIN_SIZES[k]) - 1) :
           \A j \in 1..Len(Strategies) :
             LET row == table[RowsBefore(k) + Len(Strategies) * i + j]
                 env == EnvOf(orc, i)
             IN /\ row.cv_name = Strategies[j].name
                /\ row.train_size = TRAIN_SIZES[k]
                /\ row.validation_score = env.validation_score
                /\ row.score_error =
                     FSub(FMean(CascadeEstimate(j, env)), env.validation_score)

IsPrefix(a, b) == Len(a) <= Len(b) /\ SubSeq(b, 1, Len(a)) = a

C6_State ==
    /\ Len(csv) <= 1
    /\ csv # <<>> => (d_pc = "done" /\ csv[1] = results)
    /\ d_pc = "done" => (csv # <<>> /\ OneRowPerCombination(results, oracle))

C6_Step ==
    /\ IsPrefix(results, results')
    /\ csv # <<>> => (results' = results /\ csv' = csv)

\* C6: when the sweep has completed, the table holds exactly one row per
\* (strategy, seed, train_size) of the grid, whatever the order in which the
\* workers completed the trials; every step leaves the rows already in the
\* table as they are; the table is written once, after the last append.
C6_OneRowPerTrialWrittenOnce == []C6_State /\ [][C6_Step]_vars

\* a sweep whose even and odd seeds met different environments has written
\* its table
C6_Witness ==
    /\ d_pc = "done"
    /\ oracle[0] # oracle[1]
    /\ Len(csv) = 1
    /\ Len(results) = Len(Strategies) * (5 * N_DRAWS + N_DRAWS \div 10)

====
